---- MODULE Spec2Model ----
(***************************************************************************)
(* Model of app.py: the conversational bookkeeping assistant.              *)
(*                                                                         *)
(* State: the environment configuration (DATABASE_URL, the Anthropic       *)
(* client), the transactions table, and the record of the last message     *)
(* handled by process_natural_language (its inputs, its reply or the       *)
(* exception that escaped, the connections it left open).                  *)
(*                                                                         *)
(* Texts are TLA+ strings; Python's `in`, lower(), the amount regex and    *)
(* the %.2f formatting are computed character by character.  Amounts are   *)
(* integers in cents: every text of the model carries at most two          *)
(* fractional digits, so float() and DECIMAL(10,2) hold them exactly, and  *)
(* no account of this program is both debited and credited, so the float   *)
(* sums of get_balances are exact too.                                     *)
(***************************************************************************)
EXTENDS Integers, Sequences, FiniteSets, TLC

VARIABLES
    DATABASE_URL,   \* TRUE when the environment sets DATABASE_URL
    client,         \* TRUE when AIAccountant.client is an Anthropic client
    phase,          \* "import" | "ready" | "handling" | "served" | "crashed"
    transactions,   \* the rows of table transactions, in insertion order
    before,         \* the rows when the last message arrived
    user_input,     \* the last message
    ai,             \* what messages.create did for it: "absent", "raise", or the response text
    faults,         \* <<fault met by the AI-branch handler, fault met by the fallback handler>>
    tie,            \* the backend's order among equal totals (expense summary)
    response,       \* the string returned ("" when an exception escaped)
    raised,         \* the exception that escaped, or "none"
    calls,          \* the handlers that started a storage sequence, in order
    branches,       \* the branches of process_natural_language that ran: "ai", "fallback"
    leaked          \* connections opened for the last operation and not closed

vars == <<DATABASE_URL, client, phase, transactions, before, user_input, ai,
          faults, tie, response, raised, calls, branches, leaked>>

----------------------------------------------------------------------------
(* Bounds *)

MaxRows == 2        \* a message is taken only while the table holds fewer rows

----------------------------------------------------------------------------
(* Strings *)

Char(s, i) == SubSeq(s, i, i)

Tail1(s) == SubSeq(s, 2, Len(s))

UPPERCASE == "ABCDEFGHIJKLMNOPQRSTUVWXYZ"
LOWERCASE == "abcdefghijklmnopqrstuvwxyz"
DIGITS == "0123456789"
\* the characters the model's strings use, in code-point order
CODEPOINTS == "\n !$'*.0123456789:?ABCDEFGHIJKLMNOPQRSTUVWXYZ[]abcdefghijklmnopqrstuvwxyz"

IndexIn(alphabet, c) ==
    IF \E i \in 1..Len(alphabet) : Char(alphabet, i) = c
    THEN CHOOSE i \in 1..Len(alphabet) : Char(alphabet, i) = c
    ELSE 0

\* str.lower()
RECURSIVE Lower(_)
Lower(s) ==
    IF s = "" THEN ""
    ELSE LET c == Char(s, 1)
             k == IndexIn(UPPERCASE, c)
         IN (IF k = 0 THEN c ELSE Char(LOWERCASE, k)) \o Lower(Tail1(s))

\* Python's `w in s`
Contains(w, s) ==
    \E i \in 1..(Len(s) - Len(w) + 1) : SubSeq(s, i, i + Len(w) - 1) = w

\* any(word in s for word in words)
AnyIn(words, s) == \E w \in words : Contains(w, s)

\* Python's str < str
RECURSIVE StrLess(_, _)
StrLess(a, b) ==
    IF a = "" THEN b # ""
    ELSE IF b = "" THEN FALSE
    ELSE LET x == IndexIn(CODEPOINTS, Char(a, 1))
             y == IndexIn(CODEPOINTS, Char(b, 1))
         IN IF x # y THEN x < y ELSE StrLess(Tail1(a), Tail1(b))

IsDigit(c) == IndexIn(DIGITS, c) # 0

\* str(n) for n >= 0
RECURSIVE NatStr(_)
NatStr(n) ==
    IF n < 10 THEN Char(DIGITS, n + 1)
    ELSE NatStr(n \div 10) \o Char(DIGITS, (n % 10) + 1)

TwoDigits(n) == Char(DIGITS, (n \div 10) + 1) \o Char(DIGITS, (n % 10) + 1)

\* f"{x:.2f}" of a non-negative amount held in cents
Money(cents) == NatStr(cents \div 100) \o "." \o TwoDigits(cents % 100)

Abs(n) == IF n < 0 THEN -n ELSE n

----------------------------------------------------------------------------
(* Amount extraction: the re.search of lines 123 and 151, whose pattern is  *)
(* an optional "$", then group 1: digits, an optional ".", more digits.     *)

\* index of the first digit of text, 0 when there is none; the leftmost match
\* of the pattern starts there (or on a "$" right before it) and group 1
\* always starts on it
FirstDigit(text) ==
    IF \E i \in 1..Len(text) : IsDigit(Char(text, i))
    THEN CHOOSE i \in 1..Len(text) :
            /\ IsDigit(Char(text, i))
            /\ \A j \in 1..(i - 1) : ~IsDigit(Char(text, j))
    ELSE 0

\* the longest run of digits of text starting at index i (the quantifiers are greedy)
RECURSIVE DigitRun(_, _)
DigitRun(text, i) ==
    IF i <= Len(text) /\ IsDigit(Char(text, i))
    THEN Char(text, i) \o DigitRun(text, i + 1)
    ELSE ""

HasAmount(text) == FirstDigit(text) # 0

IntDigits(text) == DigitRun(text, FirstDigit(text))

FracDigits(text) ==
    LET dot == FirstDigit(text) + Len(IntDigits(text))
    IN IF dot <= Len(text) /\ Char(text, dot) = "." THEN DigitRun(text, dot + 1) ELSE ""

RECURSIVE DigitsValue(_)
DigitsValue(ds) ==
    IF ds = "" THEN 0
    ELSE 10 * DigitsValue(SubSeq(ds, 1, Len(ds) - 1)) + (IndexIn(DIGITS, Char(ds, Len(ds))) - 1)

\* float(amount_match.group(1)), in cents (texts carry at most two fractional digits)
AmountCents(text) ==
    LET f == FracDigits(text)
        fc == IF Len(f) = 0 THEN 0
              ELSE IF Len(f) = 1 THEN 10 * DigitsValue(f)
              ELSE DigitsValue(SubSeq(f, 1, 2))
    IN 100 * DigitsValue(IntDigits(text)) + fc

\* amount DECIMAL(10,2), line 51
DecimalPrecision == 10
DecimalScale == 2

RECURSIVE StripZeros(_)
StripZeros(ds) == IF ds # "" /\ Char(ds, 1) = "0" THEN StripZeros(Tail1(ds)) ELSE ds

\* the INSERT is rejected (numeric field overflow) when the amount needs more
\* than precision - scale digits before the decimal point
Overflows(text) == Len(StripZeros(IntDigits(text))) > DecimalPrecision - DecimalScale

----------------------------------------------------------------------------
(* Classification *)

\* lines 110-117: the pattern-matching fallback
HeuristicIntent(text) ==
    LET low == Lower(text)
    IN IF AnyIn({"bought", "paid", "spent"}, low) THEN "expense"
       ELSE IF AnyIn({"received", "earned", "got paid"}, low) THEN "income"
       ELSE IF AnyIn({"show", "what", "how much", "balance"}, low) THEN "query"
       ELSE "unknown"

\* lines 96-101: the branch taken on the model's response
AIIntent(ai_response) ==
    IF Contains("EXPENSE", ai_response) THEN "expense"
    ELSE IF Contains("INCOME", ai_response) THEN "income"
    ELSE "query"

\* lines 130-134 with the two tests in the other order
Category_TransportFirst(text) ==
    LET low == Lower(text)
    IN IF AnyIn({"gas", "uber", "taxi", "parking"}, low) THEN "Expenses:Transport"
       ELSE IF AnyIn({"food", "lunch", "dinner", "coffee"}, low) THEN "Expenses:Food"
       ELSE "Expenses:General"

\* lines 130-134
Category(text) ==
    LET low == Lower(text)
    IN IF AnyIn({"food", "lunch", "dinner", "coffee"}, low) THEN "Expenses:Food"
       ELSE IF AnyIn({"gas", "uber", "taxi", "parking"}, low) THEN "Expenses:Transport"
       ELSE "Expenses:General"

\* lines 170-175: which report handle_query produces
QueryKind(text) ==
    LET low == Lower(text)
    IN IF Contains("balance", low) THEN "balances"
       ELSE IF Contains("expense", low) THEN "summary"
       ELSE "recent"

----------------------------------------------------------------------------
(* The messages and the model responses the model draws from *)

UserInputs ==
    { "Got paid $5000 from client project",
      "Show me my balance",
      "What are my expenses?",
      "Spent $45 on coffee and gas",
      "paid 45.00 for uber",
      "Received $0 refund",
      "paid 123456789 for parking",
      "I spent money",
      "hello there" }

AIResponses ==
    { "EXPENSE: a purchase", "INCOME: a payment", "QUERY: a report", "I am not sure." }

\* What the string functions above give on each message and each response,
\* computed once: the handlers below read these tables instead of scanning
\* the same string again at every step.
Parsed ==
    [t \in UserInputs |->
        [intent |-> HeuristicIntent(t),
         category |-> Category(t),
         query |-> QueryKind(t),
         has_amount |-> HasAmount(t),
         overflows |-> HasAmount(t) /\ Overflows(t),
         cents |-> IF HasAmount(t) /\ ~Overflows(t) THEN AmountCents(t) ELSE 0]]

ParsedResponse == [r \in AIResponses |-> AIIntent(r)]

----------------------------------------------------------------------------
(* The transactions table and the connection each operation opens *)

Row(date, description, debit, credit, amount) ==
    [date |-> date, description |-> description, debit_account |-> debit,
     credit_account |-> credit, amount |-> amount, ai_categorized |-> TRUE]

\* what an operation hands back: the string it returns or the exception it
\* raises, the table afterwards, the connections it opened and did not close,
\* the handlers that started a storage sequence, and (filled in by the router)
\* the branches of process_natural_language that ran
Returned(reply, table, started) ==
    [reply |-> reply, raised |-> "none", table |-> table, leaked |-> 0, calls |-> started,
     branches |-> <<>>]

Raised(exc, table, open, started) ==
    [reply |-> "", raised |-> exc, table |-> table, leaked |-> open, calls |-> started,
     branches |-> <<>>]

WriteFaults == {"none", "connect", "execute", "commit", "close"}
ReadFaults == {"none", "connect", "execute", "fetch", "close"}

\* lines 137-144 and 157-164: get_db_connection, cursor, execute(INSERT),
\* commit, close, with no try/finally around them.  datetime.now() is the
\* insertion tick.  parsed is what the string functions give on text (Parsed);
\* fault names the step the backend fails at.
InsertTransaction(db, table, text, parsed, debit, credit, fault, reply, name) ==
    IF ~db THEN Raised("AttributeError", table, 0, <<name>>)    \* None.cursor()
    ELSE IF fault = "connect" THEN Raised("OperationalError", table, 0, <<name>>)
    ELSE IF fault = "execute" THEN Raised("OperationalError", table, 1, <<name>>)
    ELSE IF parsed.overflows THEN Raised("DataError", table, 1, <<name>>)
    ELSE IF fault = "commit" THEN Raised("OperationalError", table, 1, <<name>>)
    ELSE LET after == Append(table, Row(Len(table) + 1, text, debit, credit, parsed.cents))
         IN IF fault = "close" THEN Raised("OperationalError", after, 1, <<name>>)
            ELSE Returned(reply, after, <<name>>)

\* stands for the check mark U+2713 that opens both confirmations
CheckMark == "[v]"

\* lines 119-146
record_expense(db, table, text, parsed, fault) ==
    IF ~parsed.has_amount
    THEN Returned("I couldn't find an amount. Please include a number like '$25' or '25.50'",
                  table, <<>>)
    ELSE InsertTransaction(db, table, text, parsed, parsed.category, "Assets:Cash", fault,
                CheckMark \o " Recorded: " \o parsed.category \o " $" \o Money(parsed.cents)
                    \o "\nDescription: " \o text,
                "record_expense")

\* lines 148-166
record_income(db, table, text, parsed, fault) ==
    IF ~parsed.has_amount
    THEN Returned("I couldn't find an amount. Please include a number.", table, <<>>)
    ELSE InsertTransaction(db, table, text, parsed, "Assets:Bank", "Revenue:Sales", fault,
                CheckMark \o " Recorded income: $" \o Money(parsed.cents)
                    \o "\nDescription: " \o text,
                "record_income")

----------------------------------------------------------------------------
(* Reports *)

RECURSIVE SumAmounts(_)
SumAmounts(rows) ==
    IF rows = <<>> THEN 0 ELSE rows[1].amount + SumAmounts(Tail(rows))

\* SUM(amount) ... GROUP BY debit_account / credit_account, lines 183-195
DebitTotal(table, a) == SumAmounts(SelectSeq(table, LAMBDA r : r.debit_account = a))
CreditTotal(table, a) == SumAmounts(SelectSeq(table, LAMBDA r : r.credit_account = a))

DebitAccounts(table) == {table[i].debit_account : i \in 1..Len(table)}
CreditAccounts(table) == {table[i].credit_account : i \in 1..Len(table)}

\* lines 182-196: the rows of the UNION ALL, one per account and side
BalanceRows(table) ==
    {<<"debit", a, DebitTotal(table, a)>> : a \in DebitAccounts(table)}
        \cup {<<"credit", a, -CreditTotal(table, a)>> : a \in CreditAccounts(table)}

RECURSIVE SumTotals(_)
SumTotals(rows) ==
    IF rows = {} THEN 0
    ELSE LET r == CHOOSE x \in rows : TRUE IN r[3] + SumTotals(rows \ {r})

\* lines 198-201: the dict built from the fetched rows
Balances(table) ==
    LET rows == BalanceRows(table)
    IN [a \in {r[2] : r \in rows} |-> SumTotals({r \in rows : r[2] = a})]

\* sorted(): the strings of S in ascending order
RECURSIVE SortedStrings(_)
SortedStrings(S) ==
    IF S = {} THEN <<>>
    ELSE LET least == CHOOSE a \in S : \A b \in S \ {a} : StrLess(a, b)
         IN <<least>> \o SortedStrings(S \ {least})

\* lines 205-208 without the test of line 207
RECURSIVE BalanceLines_ZeroShown(_, _)
BalanceLines_ZeroShown(balances, accounts) ==
    IF accounts = <<>> THEN ""
    ELSE LET account == Head(accounts)
             balance == balances[account]
         IN account \o ": $" \o Money(Abs(balance)) \o " "
                \o (IF balance > 0 THEN "DR" ELSE "CR") \o "\n"
                \o BalanceLines_ZeroShown(balances, Tail(accounts))

\* lines 205-208
RECURSIVE BalanceLines(_, _)
BalanceLines(balances, accounts) ==
    IF accounts = <<>> THEN ""
    ELSE LET account == Head(accounts)
             balance == balances[account]
         IN (IF balance # 0
             THEN account \o ": $" \o Money(Abs(balance)) \o " "
                    \o (IF balance > 0 THEN "DR" ELSE "CR") \o "\n"
             ELSE "")
            \o BalanceLines(balances, Tail(accounts))

BalancesReport(table) ==
    LET balances == Balances(table)
    IN "**Account Balances:**\n" \o BalanceLines(balances, SortedStrings(DOMAIN balances))

\* lines 177-210
get_balances(db, table, fault) ==
    IF ~db THEN Raised("AttributeError", table, 0, <<"get_balances">>)
    ELSE IF fault = "connect" THEN Raised("OperationalError", table, 0, <<"get_balances">>)
    ELSE IF fault \in {"execute", "fetch", "close"}
         THEN Raised("OperationalError", table, 1, <<"get_balances">>)
    ELSE Returned(BalancesReport(table), table, <<"get_balances">>)

\* LIMIT 5, line 221, and desc[:30], line 228
RecentLimit == 5
DescriptionWidth == 30

Min(a, b) == IF a < b THEN a ELSE b

\* date.strftime("%m/%d"): one tick of the model's clock is a day of January
DateStr(date) == "01/" \o TwoDigits(date)

\* lines 217-222: ORDER BY date DESC LIMIT 5 (dates grow with insertion)
RecentRows(table) ==
    [i \in 1..Min(RecentLimit, Len(table)) |-> table[Len(table) + 1 - i]]

\* lines 224-228
RECURSIVE RecentLines(_)
RecentLines(rows) ==
    IF rows = <<>> THEN ""
    ELSE LET r == Head(rows)
         IN DateStr(r.date) \o ": "
              \o SubSeq(r.description, 1, Min(DescriptionWidth, Len(r.description)))
              \o "... $" \o Money(r.amount) \o "\n" \o RecentLines(Tail(rows))

\* lines 212-231
get_recent_transactions(db, table, fault) ==
    IF ~db THEN Raised("AttributeError", table, 0, <<"get_recent_transactions">>)
    ELSE IF fault = "connect"
         THEN Raised("OperationalError", table, 0, <<"get_recent_transactions">>)
    ELSE IF fault \in {"execute", "fetch", "close"}
         THEN Raised("OperationalError", table, 1, <<"get_recent_transactions">>)
    ELSE Returned("**Recent Transactions:**\n" \o RecentLines(RecentRows(table)),
                  table, <<"get_recent_transactions">>)

\* WHERE debit_account LIKE 'Expenses:%', line 241
IsExpenseAccount(a) == Len(a) >= 9 /\ SubSeq(a, 1, 9) = "Expenses:"

ExpenseAccounts == {"Expenses:Food", "Expenses:General", "Expenses:Transport"}

\* the orders in which a backend may return accounts of equal total
TieOrders ==
    {o \in [1..3 -> ExpenseAccounts] : \A i, j \in 1..3 : i # j => o[i] # o[j]}

Position(order, a) == CHOOSE i \in DOMAIN order : order[i] = a

\* lines 238-244: GROUP BY debit_account ORDER BY total DESC; the order of
\* equal totals is the backend's (order)
RECURSIVE SummaryRows(_, _, _)
SummaryRows(table, accounts, order) ==
    IF accounts = {} THEN <<>>
    ELSE LET first == CHOOSE a \in accounts : \A b \in accounts \ {a} :
                        \/ DebitTotal(table, a) > DebitTotal(table, b)
                        \/ /\ DebitTotal(table, a) = DebitTotal(table, b)
                           /\ Position(order, a) < Position(order, b)
         IN <<<<first, DebitTotal(table, first)>>>>
              \o SummaryRows(table, accounts \ {first}, order)

\* lines 246-254
RECURSIVE SummaryLines(_)
SummaryLines(rows) ==
    IF rows = <<>> THEN ""
    ELSE Head(rows)[1] \o ": $" \o Money(Head(rows)[2]) \o "\n" \o SummaryLines(Tail(rows))

RECURSIVE SummaryTotal(_)
SummaryTotal(rows) ==
    IF rows = <<>> THEN 0 ELSE Head(rows)[2] + SummaryTotal(Tail(rows))

\* lines 233-256
get_expenses_summary(db, table, fault, order) ==
    IF ~db THEN Raised("AttributeError", table, 0, <<"get_expenses_summary">>)
    ELSE IF fault = "connect"
         THEN Raised("OperationalError", table, 0, <<"get_expenses_summary">>)
    ELSE IF fault \in {"execute", "fetch", "close"}
         THEN Raised("OperationalError", table, 1, <<"get_expenses_summary">>)
    ELSE LET rows == SummaryRows(table,
                        {a \in DebitAccounts(table) : IsExpenseAccount(a)}, order)
         IN Returned("**Expense Summary:**\n" \o SummaryLines(rows)
                        \o "\n**Total Expenses: $" \o Money(SummaryTotal(rows)) \o "**",
                     table, <<"get_expenses_summary">>)

\* lines 168-175
handle_query(db, table, parsed, fault, order) ==
    IF parsed.query = "balances" THEN get_balances(db, table, fault)
    ELSE IF parsed.query = "summary" THEN get_expenses_summary(db, table, fault, order)
    ELSE get_recent_transactions(db, table, fault)

----------------------------------------------------------------------------
(* The router *)

\* the handler an intent selects: lines 96-101 and 110-115
Dispatch(intent, db, table, text, parsed, fault, order) ==
    IF intent = "expense" THEN record_expense(db, table, text, parsed, fault)
    ELSE IF intent = "income" THEN record_income(db, table, text, parsed, fault)
    ELSE handle_query(db, table, parsed, fault, order)

\* lines 93-101: the branch taken on the model's response, inside the try block
AIBranch(db, table, text, parsed, ai_intent, fault, order) ==
    [Dispatch(ai_intent, db, table, text, parsed, fault, order)
        EXCEPT !.branches = <<"ai">>]

\* lines 108-115 with the query branch as the last one
Fallback_QueryByDefault(first, db, text, parsed, fault, order) ==
    LET second ==
            Dispatch(IF parsed.intent = "unknown" THEN "query" ELSE parsed.intent,
                     db, first.table, text, parsed, fault, order)
    IN [second EXCEPT !.leaked = first.leaked + second.leaked,
                      !.calls = first.calls \o second.calls,
                      !.branches = first.branches \o <<"fallback">>]

\* lines 108-117: the pattern-matching fallback, outside any try block; it
\* starts from the table and the connections as the try block left them
Fallback(first, db, text, parsed, fault, order) ==
    LET second ==
            IF parsed.intent = "unknown"
            THEN Returned("I can help you record transactions or check balances. Try saying 'I spent $X on Y' or 'Show me my expenses'",
                          first.table, <<>>)
            ELSE Dispatch(parsed.intent, db, first.table, text, parsed, fault, order)
    IN [second EXCEPT !.leaked = first.leaked + second.leaked,
                      !.calls = first.calls \o second.calls,
                      !.branches = first.branches \o <<"fallback">>]

\* lines 79-117 without the except clause: the model call's exception escapes
process_natural_language_NoExcept(cl, db, table, text, outcome, fa, fh, order) ==
    LET parsed == Parsed[text]
    IN IF cl /\ outcome = "raise"
       THEN [Raised("APIError", table, 0, <<>>) EXCEPT !.branches = <<"ai">>]
       ELSE IF cl
       THEN AIBranch(db, table, text, parsed, ParsedResponse[outcome], fa, order)
       ELSE Fallback(Raised("none", table, 0, <<>>), db, text, parsed, fh, order)

\* lines 79-117.  cl: self.client is set; outcome: "absent", "raise" (lines
\* 85-93 raised) or the response text; fa, fh: the storage fault met by the
\* handler of the AI branch and by the handler of the fallback.  `except
\* Exception` (lines 103-105) swallows whatever the try block raised, the
\* model call's failure and a handler's alike, and control falls through to
\* line 108; so it does when there is no client.
process_natural_language(cl, db, table, text, outcome, fa, fh, order) ==
    LET parsed == Parsed[text]
        tried ==
            IF cl /\ outcome # "raise"
            THEN AIBranch(db, table, text, parsed, ParsedResponse[outcome], fa, order)
            ELSE Raised(IF cl THEN "APIError" ELSE "none", table, 0, <<>>)
    IN IF cl /\ outcome # "raise" /\ tried.raised = "none" THEN tried
       ELSE Fallback(tried, db, text, parsed, fh, order)

\* lines 35-56
init_db(db, fault) ==
    IF ~db THEN Returned("", <<>>, <<>>)
    ELSE IF fault = "connect" THEN Raised("OperationalError", <<>>, 0, <<"init_db">>)
    ELSE IF fault \in {"execute", "commit", "close"}
         THEN Raised("OperationalError", <<>>, 1, <<"init_db">>)
    ELSE Returned("", <<>>, <<"init_db">>)

----------------------------------------------------------------------------
(* The choices open to the environment on a message *)

AIOutcomes(cl) == IF cl THEN {"raise"} \cup AIResponses ELSE {"absent"}

DefaultOrder == <<"Expenses:Food", "Expenses:General", "Expenses:Transport">>

\* the faults a handler chosen by intent can meet: none when it never reaches
\* the backend
FaultsFor(db, intent, has_amount) ==
    IF ~db THEN {"none"}
    ELSE IF intent = "query" THEN ReadFaults
    ELSE IF intent \in {"expense", "income"} /\ has_amount THEN WriteFaults
    ELSE {"none"}

\* the orders of equal totals that matter to a message: the backend's choice
\* shows only in an expense summary over accounts of equal total
OrdersFor(table, kind) ==
    IF /\ kind = "summary"
       /\ \E a, b \in DebitAccounts(table) :
            a # b /\ DebitTotal(table, a) = DebitTotal(table, b)
    THEN TieOrders
    ELSE {DefaultOrder}

----------------------------------------------------------------------------
(* The state machine *)

Init ==
    /\ DATABASE_URL \in BOOLEAN
    /\ client \in BOOLEAN
    /\ phase = "import"
    /\ transactions = <<>>
    /\ before = <<>>
    /\ user_input = ""
    /\ ai = "absent"
    /\ faults = <<"none", "none">>
    /\ tie = DefaultOrder
    /\ response = ""
    /\ raised = "none"
    /\ calls = <<>>
    /\ branches = <<>>
    /\ leaked = 0

\* line 59: init_db() at import; an exception there ends the process
InitDb ==
    /\ phase = "import"
    /\ \E fault \in (IF DATABASE_URL THEN WriteFaults ELSE {"none"}) :
       \E r \in {init_db(DATABASE_URL, fault)} :
            /\ phase' = IF r.raised = "none" THEN "ready" ELSE "crashed"
            /\ raised' = r.raised
            /\ calls' = r.calls
            /\ leaked' = r.leaked
            /\ faults' = <<fault, "none">>
    /\ UNCHANGED <<DATABASE_URL, client, transactions, before, user_input, ai, tie, response,
                   branches>>

\* line 262: the chat interface calls chat_with_accountant with a message;
\* nothing of the previous message's handling is left but the table
Submit ==
    /\ phase \in {"ready", "served"}
    /\ \E text \in UserInputs : user_input' = text
    /\ phase' = "handling"
    /\ before' = transactions
    /\ ai' = "absent"
    /\ faults' = <<"none", "none">>
    /\ tie' = DefaultOrder
    /\ response' = ""
    /\ raised' = "none"
    /\ calls' = <<>>
    /\ branches' = <<>>
    /\ leaked' = 0
    /\ UNCHANGED <<DATABASE_URL, client, transactions>>

\* lines 264-265: process_natural_language runs to its return or its exception
Respond ==
    /\ phase = "handling"
    /\ \E outcome \in AIOutcomes(client) :
       LET parsed == Parsed[user_input]
       IN
       \E order \in OrdersFor(transactions, parsed.query) :
       \E fa \in (IF client /\ outcome # "raise"
                  THEN FaultsFor(DATABASE_URL, ParsedResponse[outcome], parsed.has_amount)
                  ELSE {"none"}) :
       \E fh \in FaultsFor(DATABASE_URL, parsed.intent, parsed.has_amount) :
       \E r \in {process_natural_language(client, DATABASE_URL, transactions, user_input,
                                          outcome, fa, fh, order)} :
            \* a fault is drawn only for a handler that runs
            /\ fh # "none" => r.branches # <<"ai">>
            /\ Len(r.table) <= MaxRows
            /\ phase' = "served"
            /\ transactions' = r.table
            /\ ai' = outcome
            /\ faults' = <<fa, fh>>
            /\ tie' = order
            /\ response' = r.reply
            /\ raised' = r.raised
            /\ calls' = r.calls
            /\ branches' = r.branches
            /\ leaked' = r.leaked
    /\ UNCHANGED <<DATABASE_URL, client, before, user_input>>

Next == InitDb \/ Submit \/ Respond

Spec == Init /\ [][Next]_vars

----------------------------------------------------------------------------
(* Vocabulary of the properties *)

Served == phase = "served"

NoFault == faults = <<"none", "none">>

\* the Heuristic Classifier decided the message: no client, or the model call raised
HeuristicOnly == ai \in {"absent", "raise"}

Guidance ==
    "I can help you record transactions or check balances. Try saying 'I spent $X on Y' or 'Show me my expenses'"

Appended == SubSeq(transactions, Len(before) + 1, Len(transactions))

KeepsOldRows == SubSeq(transactions, 1, Len(before)) = before

\* the record-expense handler was the one the router dispatched to
ExpenseDispatched ==
    \/ branches = <<"ai">> /\ Contains("EXPENSE", ai)
    \/ branches = <<"fallback">> /\ calls = <<"record_expense">>

\* the category the rule order of the specification gives each message
RuleOrderCategory ==
    [t \in UserInputs |->
        IF \E w \in {"food", "lunch", "dinner", "coffee"} : Contains(w, Lower(t))
        THEN "Expenses:Food"
        ELSE IF \E w \in {"gas", "uber", "taxi", "parking"} : Contains(w, Lower(t))
        THEN "Expenses:Transport"
        ELSE "Expenses:General"]

ContainsAmount == [t \in UserInputs |-> \E i \in 1..Len(t) : Char(t, i) \in
                        {"0", "1", "2", "3", "4", "5", "6", "7", "8", "9"}]

\* the amount of the message fits the DECIMAL(10,2) column: at most eight
\* digits before the decimal point
FitsColumn ==
    [t \in UserInputs |-> ContainsAmount[t] /\ Len(StripZeros(IntDigits(t))) <= 8]

ExpenseRecorded(t) ==
    /\ Len(Appended) = 1
    /\ KeepsOldRows
    /\ Appended[1].credit_account = "Assets:Cash"
    /\ Appended[1].ai_categorized = TRUE
    /\ Appended[1].debit_account = RuleOrderCategory[t]
    /\ Appended[1].description = t

\* C1 as stated: every message that contains an amount and is dispatched to
\* the record-expense handler, with storage working, appends exactly one
\* transaction: credit Assets:Cash, ai_categorized true, debit by the rule order.
C1_AsStated ==
    (Served /\ DATABASE_URL /\ NoFault /\ ExpenseDispatched /\ ContainsAmount[user_input])
        => ExpenseRecorded(user_input)

\* C1 amended: the same, for the messages whose amount fits the DECIMAL(10,2)
\* column (fewer than nine digits before the decimal point); a message with
\* both "coffee" and "gas" is recorded under Expenses:Food.
C1_ExpenseRecordedByRuleOrder ==
    (Served /\ DATABASE_URL /\ NoFault /\ ExpenseDispatched /\ FitsColumn[user_input])
        => ExpenseRecorded(user_input)

C1_Witness ==
    /\ Served /\ DATABASE_URL /\ NoFault /\ ExpenseDispatched
    /\ user_input = "Spent $45 on coffee and gas"
    /\ Len(Appended) = 1
    /\ Appended[1].debit_account = "Expenses:Food"
    /\ Appended[1].amount = 4500

\* the messages whose only trigger phrase is the income trigger "got paid"
OnlyGotPaid ==
    [t \in UserInputs |->
        LET low == Lower(t)
        IN /\ Contains("got paid", low)
           /\ ~Contains("bought", low) /\ ~Contains("spent", low)
           /\ \A i \in 1..(Len(low) - 3) :
                SubSeq(low, i, i + 3) = "paid" => (i > 4 /\ SubSeq(low, i - 4, i + 3) = "got paid")
           /\ ContainsAmount[t]]

\* C2: under the Heuristic Classifier a message with an amount whose only
\* trigger is "got paid" is recorded as income: record_income runs and the
\* row appended has debit Assets:Bank and credit Revenue:Sales.
C2_GotPaidIsIncome ==
    (Served /\ HeuristicOnly /\ DATABASE_URL /\ NoFault /\ OnlyGotPaid[user_input])
        => /\ calls = <<"record_income">>
           /\ Len(Appended) = 1
           /\ Appended[1].debit_account = "Assets:Bank"
           /\ Appended[1].credit_account = "Revenue:Sales"

\* the account names of the program in ascending (code-point) order
AccountsAscending ==
    <<"Assets:Bank", "Assets:Cash", "Expenses:Food", "Expenses:General",
      "Expenses:Transport", "Revenue:Sales">>

\* net balance of an account: what it was debited minus what it was credited
RECURSIVE NetBalance(_, _)
NetBalance(table, a) ==
    IF table = <<>> THEN 0
    ELSE (IF Head(table).debit_account = a THEN Head(table).amount ELSE 0)
         - (IF Head(table).credit_account = a THEN Head(table).amount ELSE 0)
         + NetBalance(Tail(table), a)

RECURSIVE ExpectedBalanceLines(_, _)
ExpectedBalanceLines(table, i) ==
    IF i > Len(AccountsAscending) THEN ""
    ELSE LET a == AccountsAscending[i]
             net == NetBalance(table, a)
         IN (IF net = 0 THEN ""
             ELSE a \o ": $" \o Money(IF net > 0 THEN net ELSE -net) \o " "
                    \o (IF net > 0 THEN "DR" ELSE "CR") \o "\n")
            \o ExpectedBalanceLines(table, i + 1)

BalancesReturned == Served /\ raised = "none" /\ calls # <<>> /\ calls[Len(calls)] = "get_balances"

\* C3: the balances report lists exactly the accounts of non-zero net balance,
\* in ascending account-name order, each with the absolute value of its net
\* balance and DR when positive, CR when negative; an empty ledger gives no
\* account line, and a ledger holding one $45 expense debited to Expenses:Food
\* gives "Assets:Cash: $45.00 CR" then "Expenses:Food: $45.00 DR".
C3_BalancesReport ==
    BalancesReturned =>
        /\ response = "**Account Balances:**\n" \o ExpectedBalanceLines(transactions, 1)
        /\ transactions = <<>> => response = "**Account Balances:**\n"
        /\ ( /\ Len(transactions) = 1
             /\ transactions[1].debit_account = "Expenses:Food"
             /\ transactions[1].credit_account = "Assets:Cash"
             /\ transactions[1].amount = 4500 )
           => response = "**Account Balances:**\nAssets:Cash: $45.00 CR\nExpenses:Food: $45.00 DR\n"

\* a report over two rows, one of them of amount zero, whose accounts are left out
C3_Witness ==
    /\ BalancesReturned
    /\ Len(transactions) = 2
    /\ transactions[1].amount = 0
    /\ transactions[2].debit_account = "Expenses:Food"
    /\ response = "**Account Balances:**\nAssets:Cash: $45.00 CR\nExpenses:Food: $45.00 DR\n"

\* the messages that match no expense, income or query trigger word
NoTrigger ==
    [t \in UserInputs |->
        \A w \in {"bought", "paid", "spent", "received", "earned", "got paid",
                  "show", "what", "how much", "balance"} : ~Contains(w, Lower(t))]

GuidanceOnly ==
    /\ response = Guidance
    /\ raised = "none"
    /\ transactions = before
    /\ calls = <<>>

\* C4 as stated: a message that matches no trigger word gets the guidance
\* string, with no ledger write and no ledger read, in every configuration,
\* the model call returning any response included.
C4_AsStated == (Served /\ NoTrigger[user_input]) => GuidanceOnly

\* C4 amended: so it is when the client is absent or the model call raised.
C4_UnknownGetsGuidance ==
    (Served /\ NoTrigger[user_input] /\ HeuristicOnly) => GuidanceOnly

C4_Witness ==
    /\ Served /\ client /\ ai = "raise"
    /\ user_input = "hello there"
    /\ response = Guidance
    /\ Len(transactions) > 0

\* what the heuristic-only path (no client) does on the same message, from the
\* same table, meeting the same storage fault and the same backend order
HeuristicPath ==
    process_natural_language(FALSE, DATABASE_URL, before, user_input, "absent",
                             "none", faults[2], tie)

SameAsHeuristicPath ==
    /\ response = HeuristicPath.reply
    /\ raised = HeuristicPath.raised
    /\ transactions = HeuristicPath.table

\* C5: with no client, or with a client whose model call raises, the reply and
\* the ledger effect are those of the heuristic-only path on the same message
\* and table, and the model's failure is not what the caller sees.
C5_FallbackEqualsHeuristic ==
    (Served /\ HeuristicOnly) => (SameAsHeuristicPath /\ raised # "APIError")

C5_Witness ==
    /\ Served /\ client /\ ai = "raise" /\ DATABASE_URL
    /\ user_input = "Spent $45 on coffee and gas"
    /\ Len(transactions) = Len(before) + 1
    /\ response = "[v] Recorded: Expenses:Food $45.00\nDescription: Spent $45 on coffee and gas"

\* the responses that hold none of the tokens EXPENSE, INCOME, QUERY
NoToken ==
    [r \in AIResponses |->
        ~Contains("EXPENSE", r) /\ ~Contains("INCOME", r) /\ ~Contains("QUERY", r)]

\* C6: a response without any of the three tokens is treated as
\* ModelUnavailable: the handler that runs and the reply are those the
\* heuristic classification of the message selects.
C6_UnparseableFallsBack ==
    (Served /\ client /\ ai \in AIResponses /\ NoFault)
        => (NoToken[ai] => SameAsHeuristicPath)

\* a step of the backend failed while the message was handled
StorageFailed == Served /\ DATABASE_URL /\ (~NoFault \/ raised = "DataError")

IsConfirmation == Len(response) >= 3 /\ SubSeq(response, 1, 3) = CheckMark

\* C7: when a configured backend fails during a ledger operation, handling the
\* message ends with a plain-text reply: no exception escapes
\* process_natural_language, and no confirmation is returned for a record that
\* was not written.
C7_StorageFailureIsReplied ==
    StorageFailed =>
        /\ raised = "none"
        /\ IsConfirmation => Len(transactions) > Len(before)

\* C8: with no backend configured nothing fails: every report query and every
\* record request returns a plain-text reply, and nothing is written.
C8_NoBackendDegrades ==
    (phase \in {"ready", "served"} /\ ~DATABASE_URL)
        => (raised = "none" /\ transactions = <<>>)

\* C9: every connection an operation acquired is released before it returns or
\* fails: after a message has been handled no connection opened for it is open.
C9_ConnectionsReleased == Served => leaked = 0

\* C10: one call of process_natural_language appends at most one transaction,
\* whatever fails: no insert is done a second time.
C10_NoRetry == Served => Len(transactions) <= Len(before) + 1

====
